---- MODULE Spec2Model ----
(***************************************************************************)
(* A model of plugin.py, the TouchPortal "Websockets" plugin.              *)
(*                                                                         *)
(* The plugin registers five callbacks on a TouchPortalAPI client          *)
(* (onConnect, onSettingUpdate, onAction, onShutdown, onError).  The       *)
(* client runs every callback on a thread pool of maxWorkers threads.      *)
(* onAction extracts two fields and runs sendmessage, a blocking           *)
(* connect / send / close cycle on a fresh WebSocket connection.           *)
(*                                                                         *)
(* Python values are modelled as follows.                                  *)
(*   - a dict is a TLA+ record; a key the dict lacks is a field the record *)
(*     lacks, so d.get(k) is "k \in DOMAIN d" followed by d[k];            *)
(*   - a list is a sequence;                                               *)
(*   - an action field entry is a dict: the {id, value} pair the host      *)
(*     sends, or one that lacks the value member or the id member;         *)
(*   - a settings entry is a single-pair dict {name: value}, written       *)
(*     [key |-> name, val |-> value];                                      *)
(*   - None (as the value of a setting) is the string None below.          *)
(* The outcome of the two network operations (websockets.connect and       *)
(* websocket.send) is chosen by the environment: each may succeed or       *)
(* raise.                                                                  *)
(***************************************************************************)
EXTENDS Naturals, Sequences, FiniteSets, TLC

\* ------------------------------------------------------------------ bounds

\* Events the host delivers in a run of concurrent handlers.
MaxEvents == 3
\* Longest field list (action data, settings) of a delivered event.
MaxFields == 3

\* ------------------------------------------------------- program constants

maxWorkers == 4

PLUGIN_ID == "tp.plugin.websockets.python"
SENDMESSAGE_ID == "tp.plugin.websockets.python.act.sendmessage"
DESTINATION_ID == "tp.plugin.websockets.python.act.sendmessage.data.destination"
MESSAGE_ID == "tp.plugin.websockets.python.act.sendmessage.data.message"
EXAMPLE_NAME == "Example Setting"
None == "None"

\* ------------------------------------------------------------- input sets

OTHER_ACTION_ID == "tp.plugin.websockets.python.act.other"
OTHER_DATA_ID == "tp.plugin.websockets.python.act.sendmessage.data.other"
OTHER_NAME == "Other Setting"

SeqsUpTo(S, n) == UNION {[1..k -> S] : k \in 0..n}

\* The entries of a field list: {id, value} pairs, entries of a recognised id
\* without a value member, and an entry without an id member.
FieldEntries ==
    [id : {DESTINATION_ID, MESSAGE_ID, OTHER_DATA_ID}, value : {"ws://localhost:9000", "hello"}]
    \cup {[id |-> i] : i \in {DESTINATION_ID, MESSAGE_ID}}
    \cup {[value |-> "hello"]}
SettingEntries == [key : {EXAMPLE_NAME, OTHER_NAME}, val : {None, "v1", "v2"}]

\* Every action payload: actionId absent, empty, unknown or sendmessage; data
\* absent or any field list up to MaxFields entries.
WideActionEvents ==
    LET aids == {"", OTHER_ACTION_ID, SENDMESSAGE_ID}
        lists == SeqsUpTo(FieldEntries, MaxFields)
    IN  {[type |-> "onAction"]}
        \cup {[type |-> "onAction", actionId |-> a] : a \in aids}
        \cup {[type |-> "onAction", data |-> d] : d \in lists}
        \cup {[type |-> "onAction", actionId |-> a, data |-> d] : a \in aids, d \in lists}

WideSettingEvents ==
    LET lists == SeqsUpTo(SettingEntries, MaxFields)
    IN  {[type |-> "onConnect"], [type |-> "onSettingUpdate"]}
        \cup {[type |-> "onConnect", settings |-> s] : s \in lists}
        \cup {[type |-> "onSettingUpdate", values |-> s] : s \in lists}

\* The payloads of the concurrent runs: the invocation
\*   {actionId: sendmessage, data: [destination "ws://localhost:9000", message "hello"]},
\* the same data under an unknown action id, and one-entry settings lists.
NarrowActionEvents ==
    LET d1 == << [id |-> DESTINATION_ID, value |-> "ws://localhost:9000"],
                 [id |-> MESSAGE_ID, value |-> "hello"] >>
    IN  {[type |-> "onAction", actionId |-> a, data |-> d1] : a \in {SENDMESSAGE_ID, OTHER_ACTION_ID}}

NarrowSettingEvents ==
    {[type |-> "onConnect", settings |-> <<[key |-> EXAMPLE_NAME, val |-> v]>>] : v \in {"v1", "v2"}}
    \cup {[type |-> "onSettingUpdate", values |-> <<[key |-> EXAMPLE_NAME, val |-> v]>>] : v \in {"v1", "v2"}}

ShutdownEvents == {[type |-> "onShutdown"]}

HostEvents(w) ==
    IF w THEN WideActionEvents \cup WideSettingEvents \cup ShutdownEvents
    ELSE NarrowActionEvents \cup NarrowSettingEvents \cup ShutdownEvents

\* ------------------------------------------------------------------ state

VARIABLES
    client,     \* TPClient: "idle" before connect(), "running", "closed" once disconnected
    wide,       \* the run delivers an event of any payload (TRUE) or MaxEvents narrow ones
    hist,       \* per delivered event: its payload and what its handler did so far
    tasks,      \* callbacks submitted to the pool and not yet finished
    conns,      \* every WebSocket connection ever opened
    mirror,     \* TP_PLUGIN_SETTINGS['example']['value']
    hostOut     \* messages the plugin sent to the host

vars == <<client, wide, hist, tasks, conns, mirror, hostOut>>

Has(d, k) == k \in DOMAIN d

\* The events of a run.  A concurrent run delivers up to MaxEvents events of
\* the narrow payloads.  A payload run delivers one event of any payload; a
\* settings event of any payload also comes second, after a narrow settings
\* event (handled before it or at the same time), so that every settings list
\* also meets a mirrored value that is already set.
Limit == IF wide THEN 2 ELSE MaxEvents

Deliverable ==
    IF ~wide THEN HostEvents(FALSE)
    ELSE IF hist = <<>> THEN HostEvents(TRUE)
    ELSE IF hist[1].data \in NarrowSettingEvents THEN WideSettingEvents
    ELSE {}

Running == {t \in tasks : t.pc /= "queued"}
FreeWorker == Cardinality(Running) < maxWorkers

NewTask(eid, handler) ==
    [eid |-> eid, handler |-> handler, pc |-> "queued",
     destination |-> "", message |-> "", websocket |-> 0, exc |-> FALSE]

Init ==
    /\ client = "idle"
    /\ wide \in BOOLEAN
    /\ hist = <<>>
    /\ tasks = {}
    /\ conns = <<>>
    /\ mirror = None
    /\ hostOut = <<>>

\* ------------------------------------------------------------ pure helpers

\* Variants of onActionBranch: any action id is dispatched; the data check is
\* made only on the sendmessage branch; an unknown action id is dropped silently.
DispatchAnyAction(data) ==
    IF ~(Has(data, "data") /\ data.data /= <<>>)
       \/ ~(Has(data, "actionId") /\ data.actionId /= "")
    THEN "return"
    ELSE "sendmessage"

LateDataCheck(data) ==
    IF ~(Has(data, "actionId") /\ data.actionId /= "")
    THEN "return"
    ELSE IF data.actionId = SENDMESSAGE_ID
    THEN IF Has(data, "data") /\ data.data /= <<>> THEN "sendmessage" ELSE "return"
    ELSE "warning"

SilentUnknownAction(data) ==
    IF ~(Has(data, "data") /\ data.data /= <<>>)
       \/ ~(Has(data, "actionId") /\ data.actionId /= "")
    THEN "return"
    ELSE IF data.actionId = SENDMESSAGE_ID THEN "sendmessage" ELSE "return"

\* onAction, lines 204 and 208: what the handler does with the invocation.
onActionBranch(data) ==
    IF ~(Has(data, "data") /\ data.data /= <<>>)
       \/ ~(Has(data, "actionId") /\ data.actionId /= "")
    THEN "return"
    ELSE IF data.actionId = SENDMESSAGE_ID THEN "sendmessage" ELSE "warning"

\* onAction, lines 212-218: the scan of the field list.  obj.get('id') of an
\* entry without an id is None and matches neither branch; obj['value'] of an
\* entry without a value raises KeyError, which ends the scan (raised).
RECURSIVE ScanFields(_, _, _, _)
ScanFields(action_data, i, destination, message) ==
    IF i > Len(action_data)
    THEN [destination |-> destination, message |-> message, raised |-> FALSE]
    ELSE LET obj == action_data[i]
             KeyError == [destination |-> destination, message |-> message, raised |-> TRUE]
         IN  IF Has(obj, "id") /\ obj.id = DESTINATION_ID
             THEN IF Has(obj, "value")
                  THEN ScanFields(action_data, i + 1, obj.value, message)
                  ELSE KeyError
             ELSE IF Has(obj, "id") /\ obj.id = MESSAGE_ID
             THEN IF Has(obj, "value")
                  THEN ScanFields(action_data, i + 1, destination, obj.value)
                  ELSE KeyError
             ELSE ScanFields(action_data, i + 1, destination, message)

\* Variant of ExtractFields: the fields start at the default the action's
\* declaration gives them, "<None>".
ExtractFieldsDeclaredDefault(action_data) == ScanFields(action_data, 1, "<None>", "<None>")

ExtractFields(action_data) == ScanFields(action_data, 1, "", "")

\* handleSettings, line 169: the list of single-pair dicts flattened to one
\* dict; a later entry of the same name replaces an earlier one.
Flatten(settings) ==
    [n \in {settings[i].key : i \in DOMAIN settings} |->
        LET last == CHOOSE i \in DOMAIN settings :
                        /\ settings[i].key = n
                        /\ \A j \in DOMAIN settings : settings[j].key = n => j <= i
        IN  settings[last].val]

\* handleSettings, line 171: settings.get(name).
SettingsGet(settings, name) ==
    LET flat == Flatten(settings)
    IN  IF name \in DOMAIN flat THEN flat[name] ELSE None

\* Variant of handleSettings: the value is stored without the None test.
handleSettingsUnguarded(settings, current) == SettingsGet(settings, EXAMPLE_NAME)

\* handleSettings, lines 171-173: the mirrored value after the call.
handleSettings(settings, current) ==
    LET value == SettingsGet(settings, EXAMPLE_NAME)
    IN  IF value /= None THEN value ELSE current

\* onConnect line 183 / onSettingUpdate line 190: the settings list handed to
\* handleSettings, or <<>> when the key is absent or the list empty (no call).
SettingsOf(data) ==
    IF data.type = "onConnect"
    THEN IF Has(data, "settings") THEN data.settings ELSE <<>>
    ELSE IF Has(data, "values") THEN data.values ELSE <<>>

\* Variants of AfterConnect: a failed connect is swallowed; a failed connect is
\* tried again.
SwallowConnectError(ok) == IF ok THEN "send" ELSE "return"

RetryConnect(ok) == IF ok THEN "send" ELSE "connect"

\* sendmessage, line 196: where the coroutine goes after websockets.connect.
AfterConnect(ok) == IF ok THEN "send" ELSE "raise"

\* Variant of AfterSend: no scoped release, a failed send leaves at once.
NoCloseOnSendError(ok) == IF ok THEN "close" ELSE "raise"

\* sendmessage, lines 196-197: where the coroutine goes after websocket.send;
\* the async-with block closes the connection on both outcomes.
AfterSend(ok) == "close"

\* Variant of ConnectionFor: a connection to the same destination is reused.
ReuseConnection(cs, destination) ==
    IF \E i \in DOMAIN cs : cs[i].destination = destination
    THEN CHOOSE i \in DOMAIN cs : cs[i].destination = destination
    ELSE Len(cs) + 1

\* sendmessage, line 196: the connection a call uses, always a new one.
ConnectionFor(cs, destination) == Len(cs) + 1

\* onAction, lines 201-224: what the handler sends back to the host.
Reply(result) == <<>>

\* ------------------------------------------------------------ bookkeeping

Op(op, arg, ok, conn) == [op |-> op, arg |-> arg, ok |-> ok, conn |-> conn]

Logged(eid, op) == [hist EXCEPT ![eid].ops = Append(@, op)]

Finish(h, eid, result) == [h EXCEPT ![eid].result = result]

\* An exception leaving a callback: the client emits its error event, whose
\* callback onError is submitted to the pool.
Raise(t) ==
    (tasks \ {t}) \cup {NewTask(t.eid, "onError")}

\* ---------------------------------------------------------------- actions

\* main, line 306: TPClient.connect() pairs with the host.
Start ==
    /\ client = "idle"
    /\ client' = "running"
    /\ hostOut' = Append(hostOut, "pair")
    /\ UNCHANGED <<wide, hist, tasks, conns, mirror>>

\* main, lines 308-318: connect() ends by KeyboardInterrupt or by an exception
\* of the client while the client is running, and the finally clause calls
\* TPClient.disconnect().  No onShutdown event is delivered; callbacks already
\* submitted to the pool are not touched by main.
Disconnect ==
    /\ client = "running"
    /\ client' = "closed"
    /\ UNCHANGED <<wide, hist, tasks, conns, mirror, hostOut>>

\* The client receives an event from the host and submits its callback.  The
\* host answers the pairing with the connect event, so onConnect is delivered
\* as the first event only; an onShutdown event is the last one (autoClose
\* disconnects the client).
Emit ==
    /\ client = "running"
    /\ Len(hist) < Limit
    /\ \E ev \in Deliverable :
        /\ ev.type = "onConnect" => hist = <<>>
        /\ hist' = Append(hist, [handler |-> ev.type, data |-> ev, ops |-> <<>>,
                                 warnings |-> 0, errors |-> 0,
                                 result |-> "queued"])
        /\ tasks' = tasks \cup {NewTask(Len(hist) + 1, ev.type)}
        /\ client' = IF ev.type = "onShutdown" THEN "closed" ELSE client
    /\ UNCHANGED <<wide, conns, mirror, hostOut>>

\* onConnect / onSettingUpdate up to the call of handleSettings.
onSettings(t) ==
    /\ t.handler \in {"onConnect", "onSettingUpdate"}
    /\ t.pc = "queued"
    /\ FreeWorker
    /\ IF SettingsOf(hist[t.eid].data) /= <<>>
       THEN /\ tasks' = (tasks \ {t}) \cup {[t EXCEPT !.pc = "handleSettings"]}
            /\ hist' = [hist EXCEPT ![t.eid].result = "running"]
       ELSE /\ tasks' = tasks \ {t}
            /\ hist' = Finish(hist, t.eid, "returned")
    /\ UNCHANGED <<client, wide, conns, mirror, hostOut>>

\* The body of handleSettings.
inHandleSettings(t) ==
    /\ t.pc = "handleSettings"
    /\ mirror' = handleSettings(SettingsOf(hist[t.eid].data), mirror)
    /\ tasks' = tasks \ {t}
    /\ hist' = Finish(hist, t.eid, "returned")
    /\ UNCHANGED <<client, wide, conns, hostOut>>

\* onAction up to the call of sendmessage.
onAction(t) ==
    /\ t.handler = "onAction"
    /\ t.pc = "queued"
    /\ FreeWorker
    /\ LET data == hist[t.eid].data
           branch == onActionBranch(data)
       IN  CASE branch = "return" ->
                  /\ tasks' = tasks \ {t}
                  /\ hist' = Finish(hist, t.eid, "returned")
                  /\ hostOut' = hostOut \o Reply("returned")
             [] branch = "warning" ->
                  /\ tasks' = tasks \ {t}
                  /\ hist' = Finish([hist EXCEPT ![t.eid].warnings = @ + 1], t.eid, "returned")
                  /\ hostOut' = hostOut \o Reply("returned")
             [] branch = "sendmessage" ->
                  LET f == ExtractFields(data.data)
                  IN  IF f.raised
                      THEN /\ tasks' = Raise(t)
                           /\ hist' = Finish(hist, t.eid, "raised")
                           /\ hostOut' = hostOut \o Reply("raised")
                      ELSE /\ tasks' = (tasks \ {t}) \cup
                                      {[t EXCEPT !.pc = "connect",
                                                 !.destination = f.destination,
                                                 !.message = f.message]}
                           /\ hist' = [hist EXCEPT ![t.eid].result = "running"]
                           /\ hostOut' = hostOut
    /\ UNCHANGED <<client, wide, conns, mirror>>

\* sendmessage: websockets.connect(destination), entering the async-with block.
connect(t) ==
    /\ t.pc = "connect"
    /\ \E ok \in BOOLEAN :
        LET c == ConnectionFor(conns, t.destination)
            next == AfterConnect(ok)
        IN  /\ conns' = IF ~ok THEN conns
                        ELSE IF c > Len(conns)
                        THEN Append(conns, [opener |-> t.eid, destination |-> t.destination,
                                            users |-> {t.eid}, frames |-> <<>>,
                                            state |-> "open", closes |-> 0])
                        ELSE [conns EXCEPT ![c].users = @ \cup {t.eid}, ![c].state = "open"]
            /\ hist' = IF next \in {"raise", "return"}
                       THEN Finish(Logged(t.eid, Op("connect", t.destination, ok, IF ok THEN c ELSE 0)),
                                   t.eid, IF next = "raise" THEN "raised" ELSE "returned")
                       ELSE Logged(t.eid, Op("connect", t.destination, ok, IF ok THEN c ELSE 0))
            /\ tasks' = CASE next = "raise" -> Raise(t)
                          [] next = "return" -> tasks \ {t}
                          [] OTHER -> (tasks \ {t}) \cup
                                      {[t EXCEPT !.pc = next, !.websocket = IF ok THEN c ELSE 0]}
            /\ hostOut' = IF next \in {"raise", "return"}
                          THEN hostOut \o Reply(IF next = "raise" THEN "raised" ELSE "returned")
                          ELSE hostOut
    /\ UNCHANGED <<client, wide, mirror>>

\* sendmessage: websocket.send(message).
send(t) ==
    /\ t.pc = "send"
    /\ \E ok \in BOOLEAN :
        LET next == AfterSend(ok)
        IN  /\ conns' = IF ok
                        THEN [conns EXCEPT ![t.websocket].frames =
                                  Append(@, [from |-> t.eid, text |-> t.message])]
                        ELSE conns
            /\ hist' = IF next = "raise"
                       THEN Finish(Logged(t.eid, Op("send", t.message, ok, t.websocket)),
                                   t.eid, "raised")
                       ELSE Logged(t.eid, Op("send", t.message, ok, t.websocket))
            /\ tasks' = IF next = "raise" THEN Raise(t)
                        ELSE (tasks \ {t}) \cup {[t EXCEPT !.pc = next, !.exc = ~ok]}
            /\ hostOut' = IF next = "raise" THEN hostOut \o Reply("raised") ELSE hostOut
    /\ UNCHANGED <<client, wide, mirror>>

\* sendmessage: leaving the async-with block closes the connection, then the
\* exception of a failed send, if any, leaves the handler.
close(t) ==
    /\ t.pc = "close"
    /\ conns' = [conns EXCEPT ![t.websocket].state = "closed", ![t.websocket].closes = @ + 1]
    /\ hist' = Finish(Logged(t.eid, Op("close", "", TRUE, t.websocket)),
                      t.eid, IF t.exc THEN "raised" ELSE "returned")
    /\ tasks' = IF t.exc THEN Raise(t) ELSE tasks \ {t}
    /\ hostOut' = hostOut \o Reply(IF t.exc THEN "raised" ELSE "returned")
    /\ UNCHANGED <<client, wide, mirror>>

\* onShutdown: one log line.
onShutdown(t) ==
    /\ t.handler = "onShutdown"
    /\ t.pc = "queued"
    /\ FreeWorker
    /\ tasks' = tasks \ {t}
    /\ hist' = Finish(hist, t.eid, "returned")
    /\ UNCHANGED <<client, wide, conns, mirror, hostOut>>

\* onError: one error log line for the exception of the handler of t.eid.
onError(t) ==
    /\ t.handler = "onError"
    /\ t.pc = "queued"
    /\ FreeWorker
    /\ tasks' = tasks \ {t}
    /\ hist' = [hist EXCEPT ![t.eid].errors = @ + 1]
    /\ UNCHANGED <<client, wide, conns, mirror, hostOut>>

Next ==
    \/ Start
    \/ Disconnect
    \/ Emit
    \/ \E t \in tasks : onSettings(t)
    \/ \E t \in tasks : inHandleSettings(t)
    \/ \E t \in tasks : onAction(t)
    \/ \E t \in tasks : connect(t)
    \/ \E t \in tasks : send(t)
    \/ \E t \in tasks : close(t)
    \/ \E t \in tasks : onShutdown(t)
    \/ \E t \in tasks : onError(t)

Spec == Init /\ [][Next]_vars

\* ----------------------------------------------------------------- claims

Events == DOMAIN hist
Finished(e) == hist[e].result \in {"returned", "raised"}
IsAction(e) == hist[e].handler = "onAction"
HasAid(e) == Has(hist[e].data, "actionId")
HasData(e) == Has(hist[e].data, "data")
IsSendmessage(e) == IsAction(e) /\ HasAid(e) /\ hist[e].data.actionId = SENDMESSAGE_ID
FieldList(e) == IF HasData(e) THEN hist[e].data.data ELSE <<>>

Max(S) == CHOOSE x \in S : \A y \in S : y <= x
WithId(list, id) == {i \in DOMAIN list : Has(list[i], "id") /\ list[i].id = id}
Carries(list, id) == WithId(list, id) /= {}
\* Every entry of the destination or message id has a value member.
ValuesPresent(list) ==
    \A i \in WithId(list, DESTINATION_ID) \cup WithId(list, MESSAGE_ID) : Has(list[i], "value")
\* The value the invocation supplies for a field: that of its last entry.
Supplied(list, id) == list[Max(WithId(list, id))].value

OpsNamed(e, name) == {i \in DOMAIN hist[e].ops : hist[e].ops[i].op = name}
ErrorTasks(e) == {t \in tasks : t.eid = e /\ t.handler = "onError"}
InSendmessage(e) == \E t \in tasks : t.eid = e /\ t.pc \in {"connect", "send", "close"}
UsedConns(e) == {c \in DOMAIN conns : e \in conns[c].users}

\* C1: a sendmessage invocation carrying both fields (its destination and
\* message entries being {id, value} pairs) makes one connect to the
\* supplied destination, then one send of the supplied message on that
\* connection, then one close of it, in this order; once the handler has ended
\* the connect was attempted exactly once, and a connection that was opened
\* was sent on once and closed exactly once, whether the send succeeded or not
\* (a failed connect ends the cycle: there is nothing to send on or close).
C1_OneCycle ==
    \A e \in Events :
        (IsSendmessage(e) /\ Carries(FieldList(e), DESTINATION_ID)
                          /\ Carries(FieldList(e), MESSAGE_ID)
                          /\ ValuesPresent(FieldList(e))) =>
            LET ops == hist[e].ops
                destination == Supplied(FieldList(e), DESTINATION_ID)
                message == Supplied(FieldList(e), MESSAGE_ID)
            IN  /\ Len(ops) <= 3
                /\ Len(ops) >= 1 => ops[1].op = "connect" /\ ops[1].arg = destination
                /\ Len(ops) >= 2 => /\ ops[1].ok
                                    /\ ops[2].op = "send" /\ ops[2].arg = message
                                    /\ ops[2].conn = ops[1].conn
                /\ Len(ops) >= 3 => ops[3].op = "close" /\ ops[3].conn = ops[1].conn
                /\ Finished(e) =>
                    /\ Len(ops) >= 1
                    /\ ops[1].ok =>
                        /\ Len(ops) = 3
                        /\ conns[ops[1].conn].closes = 1
                        /\ conns[ops[1].conn].state = "closed"
                        /\ conns[ops[1].conn].destination = destination
                        /\ conns[ops[1].conn].frames =
                              IF ops[2].ok THEN <<[from |-> e, text |-> message]>> ELSE <<>>
                    /\ ~ops[1].ok => Len(ops) = 1

\* C1 witness: an invocation with both fields (and a third entry) whose send
\* failed has ended, its connection closed once.
C1_Witness ==
    \E e \in Events :
        /\ IsSendmessage(e) /\ Finished(e) /\ Len(FieldList(e)) = 3
        /\ Carries(FieldList(e), DESTINATION_ID) /\ Carries(FieldList(e), MESSAGE_ID)
        /\ ValuesPresent(FieldList(e))
        /\ Len(hist[e].ops) = 3 /\ ~hist[e].ops[2].ok
        /\ conns[hist[e].ops[1].conn].closes = 1

\* C2: an action invocation whose actionId is absent or is not the sendmessage
\* id never enters sendmessage: it attempts no connect, send or close and uses
\* no connection, whatever its field list holds.
C2_NoConnectionForOtherAction ==
    \A e \in Events :
        (IsAction(e) /\ ~IsSendmessage(e)) =>
            /\ hist[e].ops = <<>>
            /\ ~InSendmessage(e)
            /\ UsedConns(e) = {}

\* C2 witness: an invocation under another action id that carries both
\* sendmessage fields has been handled.
C2_Witness ==
    \E e \in Events :
        /\ IsAction(e) /\ HasAid(e) /\ hist[e].data.actionId = OTHER_ACTION_ID
        /\ Carries(FieldList(e), DESTINATION_ID) /\ Carries(FieldList(e), MESSAGE_ID)
        /\ Finished(e)

\* What C3 concludes of invocation e: the dispatch uses the empty string for
\* each field the list lacks (as the connect target, as the frame sent), and
\* the handler raises only after a network operation failed, never during
\* the extraction.
EmptyForMissing(e) ==
    /\ \A t \in tasks : (t.eid = e /\ t.pc \in {"connect", "send", "close"}) =>
           /\ ~Carries(FieldList(e), DESTINATION_ID) => t.destination = ""
           /\ ~Carries(FieldList(e), MESSAGE_ID) => t.message = ""
    /\ \A i \in OpsNamed(e, "connect") :
           ~Carries(FieldList(e), DESTINATION_ID) => hist[e].ops[i].arg = ""
    /\ \A i \in OpsNamed(e, "send") :
           ~Carries(FieldList(e), MESSAGE_ID) => hist[e].ops[i].arg = ""
    /\ hist[e].result = "raised" => \E i \in DOMAIN hist[e].ops : ~hist[e].ops[i].ok

LacksField(e) ==
    /\ IsSendmessage(e) /\ HasData(e)
    /\ ~Carries(FieldList(e), DESTINATION_ID) \/ ~Carries(FieldList(e), MESSAGE_ID)

\* C3 as stated: in any sendmessage invocation whose field list lacks the
\* destination id, the message id or both, extraction never raises and each
\* missing field is used as the empty string.
C3_ExtractionNeverRaises ==
    \A e \in Events : LacksField(e) => EmptyForMissing(e)

\* C3 as amended: in a sendmessage invocation whose field list lacks the
\* destination id, the message id or both, and in which every entry of the
\* destination or message id has a value member, extraction does not raise and
\* each missing field is used as the empty string; when an entry of one of the
\* two ids has no value member, extraction raises (KeyError) before any
\* connection is attempted, and the exception is reported to onError once.
C3_MissingFieldIsEmpty ==
    \A e \in Events :
        LacksField(e) =>
            IF ValuesPresent(FieldList(e))
            THEN EmptyForMissing(e)
            ELSE /\ hist[e].ops = <<>>
                 /\ ~InSendmessage(e)
                 /\ hist[e].result \in {"queued", "raised"}
                 /\ hist[e].result = "raised" =>
                        hist[e].errors + Cardinality(ErrorTasks(e)) = 1

\* C3 witness: an invocation whose entries are of another field id or have no
\* id member at all has connected to "" and sent "".
C3_Witness ==
    \E e \in Events :
        /\ IsSendmessage(e) /\ FieldList(e) /= <<>>
        /\ ~Carries(FieldList(e), DESTINATION_ID) /\ ~Carries(FieldList(e), MESSAGE_ID)
        /\ \E i \in DOMAIN FieldList(e) : ~Has(FieldList(e)[i], "id")
        /\ \E i \in DOMAIN FieldList(e) : Has(FieldList(e)[i], "id")
        /\ Len(hist[e].ops) >= 2
        /\ hist[e].ops[1].arg = "" /\ hist[e].ops[2].arg = "" /\ hist[e].ops[2].ok

\* C4 as stated: when the connect step fails, a close step still executes.
C4_CloseRunsAfterFailedConnect ==
    \A e \in Events :
        (Finished(e) /\ hist[e].ops /= <<>> /\ ~hist[e].ops[1].ok) =>
            OpsNamed(e, "close") /= {}

\* C4 as amended: when the connect step fails no connection was opened, so no
\* close step runs and the invocation leaves no connection handle behind; the
\* failure leaves the handler and is reported to onError exactly once (the one
\* report is either still queued on the pool or already made).
C4_FailedConnectReportedOnce ==
    \A e \in Events :
        (hist[e].ops /= <<>> /\ ~hist[e].ops[1].ok) =>
            /\ hist[e].ops = <<Op("connect", hist[e].ops[1].arg, FALSE, 0)>>
            /\ UsedConns(e) = {}
            /\ ~InSendmessage(e)
            /\ hist[e].result = "raised"
            /\ hist[e].errors + Cardinality(ErrorTasks(e)) = 1

\* C4 witness: a failed connect has been reported by onError.
C4_Witness ==
    \E e \in Events :
        /\ hist[e].ops /= <<>> /\ ~hist[e].ops[1].ok
        /\ hist[e].errors = 1 /\ ErrorTasks(e) = {}

\* C5: an invocation attempts at most one connect and at most one send, none
\* of them after a failed operation, and the plugin sends the host nothing but
\* the pairing message of TPClient.connect(): no message or state update about
\* the outcome of a dispatch.
C5_FireAndForget ==
    /\ \A e \in Events :
        /\ Cardinality(OpsNamed(e, "connect")) <= 1
        /\ Cardinality(OpsNamed(e, "send")) <= 1
        /\ \A i, j \in DOMAIN hist[e].ops :
               (i < j /\ ~hist[e].ops[i].ok) => hist[e].ops[j].op = "close"
    /\ hostOut = IF client = "idle" THEN <<>> ELSE <<"pair">>

\* C5 witness: one invocation has ended after a failed connect and another
\* after a failed send, both reported, and the host was sent the pairing only.
C5_Witness ==
    /\ \E e \in Events :
        /\ Finished(e) /\ Len(hist[e].ops) = 1 /\ ~hist[e].ops[1].ok /\ hist[e].errors = 1
    /\ \E e \in Events :
        /\ Finished(e) /\ Len(hist[e].ops) = 3 /\ ~hist[e].ops[2].ok /\ hist[e].errors = 1
    /\ hostOut = <<"pair">>

\* The message an invocation's dispatch carries: the supplied one, or "".
MessageOf(e) ==
    IF Carries(FieldList(e), MESSAGE_ID) THEN Supplied(FieldList(e), MESSAGE_ID) ELSE ""
Dispatched(e) == IsSendmessage(e) /\ FieldList(e) /= <<>> /\ ValuesPresent(FieldList(e))

\* C6: every dispatch opens its own connection.  A dispatch that has ended made
\* exactly one connection attempt; every connection was opened by one
\* invocation and used by that invocation only, carries at most one frame, and
\* that frame is the message of the invocation that opened it; there are as
\* many connections as successful connects, so none is reused, shared or
\* replaced by a cached result, also between concurrent handlers and between
\* invocations of identical destination and message.
C6_OwnConnection ==
    /\ \A e \in Events :
        (Dispatched(e) /\ Finished(e)) => Cardinality(OpsNamed(e, "connect")) = 1
    /\ \A c \in DOMAIN conns :
        /\ conns[c].users = {conns[c].opener}
        /\ Len(conns[c].frames) <= 1
        /\ \A i \in DOMAIN conns[c].frames :
               /\ conns[c].frames[i].from = conns[c].opener
               /\ conns[c].frames[i].text = MessageOf(conns[c].opener)
    /\ Len(conns) =
         Cardinality({e \in Events : \E i \in OpsNamed(e, "connect") : hist[e].ops[i].ok})
    /\ \A t1, t2 \in tasks :
        (t1 /= t2 /\ t1.websocket /= 0 /\ t2.websocket /= 0) => t1.websocket /= t2.websocket

\* C6 witness: two handlers of invocations with identical data are in
\* sendmessage at the same time, each having sent its frame on its own
\* connection, while a third invocation of the same data has already ended.
C6_Witness ==
    \E t1, t2 \in tasks :
        /\ t1.eid /= t2.eid /\ t1.pc = "close" /\ t2.pc = "close"
        /\ hist[t1.eid].data = hist[t2.eid].data
        /\ t1.websocket /= t2.websocket
        /\ Len(conns[t1.websocket].frames) = 1 /\ Len(conns[t2.websocket].frames) = 1
        /\ \E e \in Events :
            /\ e \notin {t1.eid, t2.eid} /\ Finished(e)
            /\ hist[e].data = hist[t1.eid].data /\ Len(hist[e].ops) = 3

\* C7 as stated: no two handler invocations are inside handleSettings at the
\* same time.
C7_NeverConcurrent ==
    Cardinality({t \in tasks : t.pc = "handleSettings"}) <= 1

\* C8 as stated: every handled action invocation whose actionId is present and
\* is not the sendmessage id logged exactly one warning and dispatched nothing,
\* whatever its field list, also an empty or absent one.
C8_WarningForAnyFieldList ==
    \A e \in Events :
        (IsAction(e) /\ Finished(e) /\ HasAid(e) /\ ~IsSendmessage(e)) =>
            hist[e].warnings = 1 /\ hist[e].ops = <<>>

\* C8 as amended: a handled action invocation whose actionId is present, not
\* empty and not the sendmessage id logged exactly one warning when its field
\* list is present and not empty, whatever the list contains, and no warning
\* when the list is empty or absent; it dispatched nothing in either case.
C8_WarningForUnknownAction ==
    \A e \in Events :
        (IsAction(e) /\ Finished(e) /\ HasAid(e) /\ ~IsSendmessage(e)
            /\ hist[e].data.actionId /= "") =>
            /\ hist[e].warnings = IF FieldList(e) /= <<>> THEN 1 ELSE 0
            /\ hist[e].ops = <<>>
            /\ UsedConns(e) = {}

\* C8 witness: an invocation under an unknown action id with a full field
\* list has logged its warning.
C8_Witness ==
    \E e \in Events :
        /\ IsAction(e) /\ Finished(e) /\ HasAid(e)
        /\ hist[e].data.actionId = OTHER_ACTION_ID
        /\ Len(FieldList(e)) = MaxFields
        /\ hist[e].warnings = 1

\* C9: an action invocation without a data member or without an actionId
\* member is ignored: no connection is attempted, no warning is logged and
\* nothing reaches onError.
C9_IncompleteInvocationIgnored ==
    \A e \in Events :
        (IsAction(e) /\ (~HasData(e) \/ ~HasAid(e))) =>
            /\ hist[e].ops = <<>>
            /\ ~InSendmessage(e)
            /\ UsedConns(e) = {}
            /\ hist[e].warnings = 0
            /\ hist[e].errors = 0
            /\ ErrorTasks(e) = {}
            /\ hist[e].result /= "raised"

\* C9 witness: an invocation with an unknown actionId and no data member has
\* been handled.
C9_Witness ==
    \E e \in Events :
        /\ IsAction(e) /\ ~HasData(e) /\ HasAid(e)
        /\ hist[e].data.actionId = OTHER_ACTION_ID
        /\ hist[e].result = "returned"

\* The handlers that leave handleSettings in a step.
Leaving == {t \in tasks : t.pc = "handleSettings" /\ t \notin tasks'}
Named(list) == {i \in DOMAIN list : list[i].key = EXAMPLE_NAME}

\* C10 as stated: after an event whose settings list contains an entry named
\* "Example Setting" with a non-None value, the mirrored value is the value of
\* the last such entry.
C10_LastNonNoneEntryMirrored ==
    [][\A t \in Leaving :
          LET list == SettingsOf(hist[t.eid].data)
              good == {i \in Named(list) : list[i].val /= None}
          IN  good /= {} => mirror' = list[Max(good)].val]_vars

\* C10 as amended: the mirrored value changes only in a step that ends
\* handleSettings for a connect or setting-update event; after that step it is
\* the value of the last entry named "Example Setting" when that value is not
\* None, and it is unchanged when no entry has that name or the last one that
\* has it holds None.  No other step (an event with an empty or absent list,
\* an action, shutdown or error callback) changes it.
C10_MirrorFollowsLastEntry ==
    [][/\ mirror' /= mirror => Leaving /= {}
       /\ \A t \in Leaving :
            LET list == SettingsOf(hist[t.eid].data)
            IN  /\ hist[t.eid].handler \in {"onConnect", "onSettingUpdate"}
                /\ mirror' = IF Named(list) /= {} /\ list[Max(Named(list))].val /= None
                             THEN list[Max(Named(list))].val
                             ELSE mirror]_vars

\* C10 witness: with the mirror set to one value by an earlier event, an
\* event whose list names "Example Setting" first with another value and last
\* with None has been handled, and the mirror still holds the earlier value.
C10_Witness ==
    \E e \in Events :
        LET list == SettingsOf(hist[e].data)
        IN  /\ hist[e].handler \in {"onConnect", "onSettingUpdate"}
            /\ \A d \in Events : Finished(d)
            /\ e = Len(hist) /\ e > 1
            /\ Cardinality(Named(list)) >= 2
            /\ list[Max(Named(list))].val = None
            /\ mirror /= None
            /\ \E i \in Named(list) : list[i].val \notin {None, mirror}

====
